---- MODULE Spec2Model ----
(***************************************************************************)
(* Comment creation of instagram_project: the request boundary             *)
(* (CommentCreateView.post), the orchestration service                     *)
(* (CommentService.create_comment), the Graph API adapter                  *)
(* (InstagramClient.create_comment / _handle_response) and the two tables  *)
(* (posts, comments).                                                      *)
(*                                                                         *)
(* A worker handles one request at a time, in four steps separated by the  *)
(* request's I/O: Receive (parse + validate), Lookup (SELECT on posts),    *)
(* Publish (HTTP POST + response handling), Persist (INSERT on comments +  *)
(* 201), and then Close (the response has been sent, locals are dropped).  *)
(*                                                                         *)
(* Strings are modelled by what the code does with them:                   *)
(*   - a request text is lead spaces, core non-blank characters and trail  *)
(*     spaces, [lead, core, trail], so that str.strip() and len() are      *)
(*     computed, not assumed;                                              *)
(*   - an f-string is the tuple of its pieces.                             *)
(* JSON values on which the code calls dict methods carry their type.      *)
(***************************************************************************)
EXTENDS Integers, Sequences, FiniteSets, TLC

(* ---------------------------- bounds ---------------------------------- *)

\* Concurrent workers of specification Spec.
NumWorkers == 2

\* Requests served in one behaviour (caps the comments table and the ids).
MaxRequests == 2

\* Longest run of leading / trailing whitespace in a request text.
MaxPad == 1

(* ------------------------ program constants --------------------------- *)

min_length == 1

max_length == 2200

INSTAGRAM_API_BASE_URL == "https://graph.facebook.com/v18.0"

HTTP_201_CREATED == 201

HTTP_400_BAD_REQUEST == 400

HTTP_404_NOT_FOUND == 404

HTTP_502_BAD_GATEWAY == 502

\* Django's answer to an exception no handler of the view catches.
HTTP_500_INTERNAL_SERVER_ERROR == 500

(* --------------------------- Python values ---------------------------- *)

None == [type |-> "None"]

\* dict.get(key, default)
Get(d, key, default) == IF key \in DOMAIN d THEN d[key] ELSE default

\* An optional member of a dict: absent, or present with one of the values.
Opt(key, Values) == {<<>>} \cup {key :> v : v \in Values}

(* ------------------------------ texts --------------------------------- *)

Str(lead, core, trail) == [lead |-> lead, core |-> core, trail |-> trail]

\* len(s)
StrLen(s) == s.lead + s.core + s.trail

\* s.strip()
Strip(s) == Str(0, s.core, 0)

\* The texts with the given core lengths and up to MaxPad spaces on each side
\* (a text without core is written with leading spaces only).
Texts(Cores) ==
    {Str(l, c, t) : l \in 0..MaxPad, c \in Cores \ {0}, t \in 0..MaxPad}
        \cup {Str(l, 0, 0) : l \in {n \in 0..MaxPad : 0 \in Cores}}

(* ------------------- CreateCommentSerializer (DRF) --------------------- *)

\* Mutants of CreateCommentSerializer: allow_blank=True and no min_length;
\* no max_length.
CreateCommentSerializer_AllowBlank(data) ==
    IF "text" \notin DOMAIN data
    THEN [is_valid |-> FALSE, errors |-> [text |-> <<"required">>]]
    ELSE LET value == Strip(data["text"]) IN
         IF StrLen(value) > max_length
         THEN [is_valid |-> FALSE, errors |-> [text |-> <<"max_length">>]]
         ELSE [is_valid |-> TRUE, validated_data |-> [text |-> value]]

CreateCommentSerializer_NoMax(data) ==
    IF "text" \notin DOMAIN data
    THEN [is_valid |-> FALSE, errors |-> [text |-> <<"required">>]]
    ELSE LET value == Strip(data["text"]) IN
         IF StrLen(value) = 0
         THEN [is_valid |-> FALSE, errors |-> [text |-> <<"blank">>]]
         ELSE [is_valid |-> TRUE, validated_data |-> [text |-> value]]

\* CharField(min_length=1, max_length=2200) with the field defaults
\* required=True, allow_blank=False, trim_whitespace=True:
\* the field is required, a text that is blank once trimmed is refused, the
\* length validators run on the trimmed value, and validated_data holds the
\* trimmed value.
CreateCommentSerializer(data) ==
    IF "text" \notin DOMAIN data
    THEN [is_valid |-> FALSE, errors |-> [text |-> <<"required">>]]
    ELSE LET value == Strip(data["text"]) IN
         IF StrLen(value) = 0
         THEN [is_valid |-> FALSE, errors |-> [text |-> <<"blank">>]]
         ELSE IF StrLen(value) > max_length
         THEN [is_valid |-> FALSE, errors |-> [text |-> <<"max_length">>]]
         ELSE IF StrLen(value) < min_length
         THEN [is_valid |-> FALSE, errors |-> [text |-> <<"min_length">>]]
         ELSE [is_valid |-> TRUE, validated_data |-> [text |-> value]]

(* ------------------------ exceptions and results ----------------------- *)

Return(value) == [kind |-> "return", value |-> value]

\* InstagramAPIError(message, status_code=0) and its subclass.
InstagramAPIError(message, status_code) ==
    [kind |-> "raise", exc |-> "InstagramAPIError",
     message |-> message, status_code |-> status_code]

MediaNotFoundError(message, status_code) ==
    [kind |-> "raise", exc |-> "MediaNotFoundError",
     message |-> message, status_code |-> status_code]

PostNotFoundError(message) ==
    [kind |-> "raise", exc |-> "PostNotFoundError", message |-> message]

\* The exceptions of the interpreter: KeyError, TypeError, AttributeError.
BuiltinError(name) == [kind |-> "raise", exc |-> name, message |-> <<name>>]

\* isinstance(e, InstagramAPIError)
IsInstagramAPIError(e) == e.exc \in {"InstagramAPIError", "MediaNotFoundError"}

(* ------------------------- the remote gateway -------------------------- *)

\* What requests.post yields: a RequestException, or a response with its
\* status code and its body, parsed (object, string, array) or not JSON.
ConnectionFailure == [raised |-> TRUE]

HttpResponse(status_code, json) ==
    [raised |-> FALSE, status_code |-> status_code, json |-> json]

InvalidJson == [type |-> "invalid"]

JsonObject(members) == [type |-> "object", members |-> members]

JsonString == [type |-> "string", value |-> "oops"]

JsonArray == [type |-> "array"]

\* requests.Response.ok: raise_for_status() raises for 400 <= status < 600.
ResponseOk(response) ==
    ~(400 <= response.status_code /\ response.status_code < 600)

\* response.text, the raw body.
ResponseText(response) == <<"<raw body>">>

(* --------------------------- InstagramClient --------------------------- *)

\* `"error" in data`: a key of a dict, an element of a list.
HasError(data) ==
    data.type = "object" /\ "error" \in DOMAIN data.members

\* Mutants of IsMissingObject: a wrong subcode; `or` for `and`.
IsMissingObject_Subcode(error_code, error_subcode) ==
    error_code = 100 /\ error_subcode = 3

IsMissingObject_Or(error_code, error_subcode) ==
    error_code = 100 \/ error_subcode = 33

\* Line 141: Instagram returns code 100 / subcode 33 for missing objects.
IsMissingObject(error_code, error_subcode) ==
    error_code = 100 /\ error_subcode = 33

\* Mutants of IsFailure: `and` for `or`; the transport status is not read.
IsFailure_And(response, data) == ~ResponseOk(response) /\ HasError(data)

IsFailure_BodyOnly(response, data) == HasError(data)

\* Line 134: the response is a failure.
IsFailure(response, data) == ~ResponseOk(response) \/ HasError(data)

\* Mutant of InvalidJsonError: the HTTP status is passed as the error code.
InvalidJsonError_Status(response) ==
    InstagramAPIError(<<"Invalid JSON response from Instagram API (status=",
                        ToString(response.status_code), ")">>,
                      response.status_code)

\* Lines 130-132.
InvalidJsonError(response) ==
    InstagramAPIError(<<"Invalid JSON response from Instagram API (status=",
                        ToString(response.status_code), ")">>, 0)

\* Lines 69-70.
NetworkError ==
    InstagramAPIError(<<"Network error while calling Instagram API: ",
                        "<exc>">>, 0)

_handle_response(response, media_id) ==
    LET data == response.json IN
    IF data.type = "invalid" THEN InvalidJsonError(response)
    ELSE IF IsFailure(response, data)
    THEN IF data.type # "object"
         THEN BuiltinError("AttributeError")       \* data.get on a list or str
         ELSE LET error == Get(data.members, "error", JsonObject(<<>>)) IN
              IF error.type # "object"
              THEN BuiltinError("AttributeError")  \* error.get on a str
              ELSE LET error_message ==
                           Get(error.members, "message", ResponseText(response))
                       error_code ==
                           Get(error.members, "code", response.status_code)
                       error_subcode == Get(error.members, "error_subcode", 0)
                   IN IF IsMissingObject(error_code, error_subcode)
                      THEN MediaNotFoundError(
                               <<"Instagram media '", media_id,
                                 "' was not found">>, 404)
                      ELSE InstagramAPIError(error_message, error_code)
    ELSE Return(data)
\* Mutant of CommentsUrl: the media's own edge.
CommentsUrl_Media(media_id) ==
    <<INSTAGRAM_API_BASE_URL, "/", media_id>>

\* The URL of the call, f"{base_url}/{media_id}/comments".
CommentsUrl(media_id) ==
    <<INSTAGRAM_API_BASE_URL, "/", media_id, "/comments">>

\* InstagramClient.create_comment, given what requests.post yields.
ClientCreateComment(media_id, message, outcome) ==
    IF outcome.raised THEN NetworkError
    ELSE _handle_response(outcome, media_id)

(* ------------------------------- state --------------------------------- *)

VARIABLES
    posts,         \* table posts: rows [id, instagram_id]
    comments,      \* table comments: rows [id, post_id, instagram_comment_id,
                   \*                       text, created_at]
    next_id,       \* the sequence behind comments.id (BigAutoField)
    now,           \* the clock behind created_at (auto_now_add)
    served,        \* requests received so far
    pc,            \* per worker: idle, lookup, publish, persist, done
    request,       \* per worker: the request, [post_id, data]
    text,          \* per worker: validated_data["text"]
    post,          \* per worker: the Post instance read by the service
    http_calls,    \* per worker: the calls of requests.post, [url, json]
    gateway,       \* per worker: what the last requests.post yielded
    api_response,  \* per worker: what the client returned or raised
    result,        \* per worker: what the service returned or raised
    reads,         \* per worker: queries on posts made for this request
    wrote,         \* per worker: ids of the comments this request inserted
    response,      \* per worker: the HTTP response of the view, [status, data]
    origin         \* per comment id: the request and gateway answer behind it

vars ==
    <<posts, comments, next_id, now, served, pc, request, text, post,
      http_calls, gateway, api_response, result, reads, wrote, response,
      origin>>

db == <<posts, comments, next_id, now, origin>>

Workers == 1..NumWorkers

\* The posts of the store: ids 1 and 2 exist, 3 does not.
Post(id, instagram_id) == [id |-> id, instagram_id |-> instagram_id]

InitialPosts == {Post(1, "17896129349000001"), Post(2, "17896129349000002")}

PostIds == {1, 2, 3}

Init ==
    /\ posts = InitialPosts
    /\ comments = {}
    /\ next_id = 1
    /\ now = 1
    /\ served = 0
    /\ pc = [w \in Workers |-> "idle"]
    /\ request = [w \in Workers |-> None]
    /\ text = [w \in Workers |-> None]
    /\ post = [w \in Workers |-> None]
    /\ http_calls = [w \in Workers |-> <<>>]
    /\ gateway = [w \in Workers |-> None]
    /\ api_response = [w \in Workers |-> None]
    /\ result = [w \in Workers |-> None]
    /\ reads = [w \in Workers |-> 0]
    /\ wrote = [w \in Workers |-> {}]
    /\ response = [w \in Workers |-> None]
    /\ origin = <<>>

(* ------------------------- CommentCreateView --------------------------- *)

Response(data, status) == [status |-> status, data |-> data]

\* str(exc) of the f-strings and messages above.
ExcStr(e) == e.message

\* Mutant of ViewErrorResponse: no clause for PostNotFoundError.
ViewErrorResponse_NoPostClause(e) ==
    IF e.exc = "MediaNotFoundError"
    THEN Response([detail |-> ExcStr(e)], HTTP_404_NOT_FOUND)
    ELSE IF IsInstagramAPIError(e)
    THEN Response([detail |-> <<"Instagram API error: ">> \o ExcStr(e)],
                  HTTP_502_BAD_GATEWAY)
    ELSE Response([detail |-> <<"Server Error (500)">>],
                  HTTP_500_INTERNAL_SERVER_ERROR)

\* The except clauses of CommentCreateView.post, in their order; an exception
\* none of them names leaves the view and Django answers 500.
ViewErrorResponse(e) ==
    IF e.exc = "PostNotFoundError"
    THEN Response([detail |-> ExcStr(e)], HTTP_404_NOT_FOUND)
    ELSE IF e.exc = "MediaNotFoundError"
    THEN Response([detail |-> ExcStr(e)], HTTP_404_NOT_FOUND)
    ELSE IF IsInstagramAPIError(e)
    THEN Response([detail |-> <<"Instagram API error: ">> \o ExcStr(e)],
                  HTTP_502_BAD_GATEWAY)
    ELSE Response([detail |-> <<"Server Error (500)">>],
                  HTTP_500_INTERNAL_SERVER_ERROR)

\* CommentSerializer(comment).data
CommentSerializer(comment) ==
    [id |-> comment.id, post |-> comment.post_id,
     instagram_comment_id |-> comment.instagram_comment_id,
     text |-> comment.text, created_at |-> comment.created_at]

\* Mutant of ServiceArguments: a post named in the body replaces the URL's.
ServiceArguments_BodyPost(post_id, data, validated_data) ==
    [post_id |-> Get(data, "post", post_id), text |-> validated_data.text]

\* What of the request reaches the service, lines 48-52: the post_id of the
\* URL and validated_data["text"]; no other member of the body is read.
ServiceArguments(post_id, data, validated_data) ==
    [post_id |-> post_id, text |-> validated_data.text]

\* The view up to the call of the service: the body is validated; an invalid
\* body is answered 400 at once.
Receive(w, Ids, Bodies) ==
    /\ pc[w] = "idle"
    /\ served < MaxRequests
    /\ \E post_id \in Ids, data \in Bodies :
         LET input_serializer == CreateCommentSerializer(data) IN
         /\ request' = [request EXCEPT ![w] = [post_id |-> post_id, data |-> data]]
         /\ IF ~input_serializer.is_valid
            THEN /\ response' = [response EXCEPT ![w] =
                        Response(input_serializer.errors, HTTP_400_BAD_REQUEST)]
                 /\ pc' = [pc EXCEPT ![w] = "done"]
                 /\ UNCHANGED text
            ELSE /\ text' = [text EXCEPT ![w] =
                        ServiceArguments(post_id, data,
                            input_serializer.validated_data).text]
                 /\ pc' = [pc EXCEPT ![w] = "lookup"]
                 /\ UNCHANGED response
    /\ served' = served + 1
    /\ UNCHANGED <<db, post, http_calls, gateway, api_response, result, reads,
                   wrote>>

(* --------------------------- CommentService ---------------------------- *)

\* Post.objects.get(pk=pk): the rows with that primary key (none: DoesNotExist).
PostsGet(rows, pk) == {p \in rows : p.id = pk}

\* Mutant of CommentsCreate: the id of the media is stored for the comment's.
CommentsCreate_MediaId(id, created_at, a_post, instagram_comment_id, a_text) ==
    [id |-> id,
     post_id |-> a_post.id,
     instagram_comment_id |-> a_post.instagram_id,
     text |-> a_text,
     created_at |-> created_at]

\* Comment.objects.create(post=post, instagram_comment_id=..., text=text):
\* the row, with the id and the created_at the store assigns.
CommentsCreate(id, created_at, a_post, instagram_comment_id, a_text) ==
    [id |-> id,
     post_id |-> a_post.id,
     instagram_comment_id |-> instagram_comment_id,
     text |-> a_text,
     created_at |-> created_at]

\* Mutants of CommentsInsert: get_or_create on (post, text); update_or_create
\* on post.
CommentsInsert_GetOrCreate(rows, row) ==
    IF \E r \in rows : r.post_id = row.post_id /\ r.text = row.text
    THEN rows
    ELSE rows \cup {row}

CommentsInsert_UpdateOrCreate(rows, row) ==
    {r \in rows : r.post_id # row.post_id} \cup {row}

\* The INSERT of Comment.objects.create: one more row, whatever the table
\* holds (no unique constraint but the primary key).
CommentsInsert(rows, row) == rows \cup {row}

\* Mutant of ForeignKeyHolds: the constraint is not there.
ForeignKeyHolds_Unchecked(rows, a_post) == TRUE

\* Comment.post, ForeignKey(Post): the INSERT needs its post in posts.
ForeignKeyHolds(rows, a_post) == a_post.id \in {p.id : p \in rows}

\* Step 1: Post.objects.get(pk=post_id).
Lookup(w) ==
    /\ pc[w] = "lookup"
    /\ reads' = [reads EXCEPT ![w] = @ + 1]
    /\ LET post_id == ServiceArguments(request[w].post_id, request[w].data,
                                        [text |-> text[w]]).post_id
           found == PostsGet(posts, post_id)
       IN
       IF found = {}
       THEN LET e == PostNotFoundError(
                        <<"Post with id=", ToString(post_id),
                          " not found">>) IN
            /\ result' = [result EXCEPT ![w] = e]
            /\ response' = [response EXCEPT ![w] = ViewErrorResponse(e)]
            /\ pc' = [pc EXCEPT ![w] = "done"]
            /\ UNCHANGED post
       ELSE /\ post' = [post EXCEPT ![w] = CHOOSE p \in found : TRUE]
            /\ pc' = [pc EXCEPT ![w] = "publish"]
            /\ UNCHANGED <<result, response>>
    /\ UNCHANGED <<db, served, request, text, http_calls, gateway,
                   api_response, wrote>>

\* Step 2: self._client.create_comment(media_id=post.instagram_id,
\* message=text): one requests.post, whose outcome the client classifies; an
\* exception passes through the service to the view.
Publish(w, Outcomes) ==
    /\ pc[w] = "publish"
    /\ \E outcome \in Outcomes :
         LET media_id == post[w].instagram_id
             returned == ClientCreateComment(media_id, text[w], outcome)
         IN /\ http_calls' = [http_calls EXCEPT ![w] =
                   Append(@, [url |-> CommentsUrl(media_id),
                              json |-> [message |-> text[w]]])]
            /\ gateway' = [gateway EXCEPT ![w] = outcome]
            /\ api_response' = [api_response EXCEPT ![w] = returned]
            /\ IF returned.kind = "raise"
               THEN /\ result' = [result EXCEPT ![w] = returned]
                    /\ response' = [response EXCEPT ![w] =
                           ViewErrorResponse(returned)]
                    /\ pc' = [pc EXCEPT ![w] = "done"]
               ELSE /\ pc' = [pc EXCEPT ![w] = "persist"]
                    /\ UNCHANGED <<result, response>>
    /\ UNCHANGED <<db, served, request, text, post, reads, wrote>>

\* Step 3: api_response["id"], Comment.objects.create(...), and the 201 of
\* the view. The subscript fails on a body that is no dict (TypeError) or has
\* no "id" (KeyError); the INSERT fails on a post_id that posts no longer
\* holds (IntegrityError of the foreign key).
Persist(w) ==
    /\ pc[w] = "persist"
    /\ LET data == api_response[w].value IN
       IF data.type # "object" \/ "id" \notin DOMAIN data.members
          \/ ~ForeignKeyHolds(posts, post[w])
       THEN LET e == BuiltinError(
                        IF data.type # "object" THEN "TypeError"
                        ELSE IF "id" \notin DOMAIN data.members THEN "KeyError"
                        ELSE "IntegrityError") IN
            /\ result' = [result EXCEPT ![w] = e]
            /\ response' = [response EXCEPT ![w] = ViewErrorResponse(e)]
            /\ UNCHANGED <<db, wrote>>
       ELSE LET comment == CommentsCreate(next_id, now, post[w],
                                           data.members["id"], text[w]) IN
            /\ comments' = CommentsInsert(comments, comment)
            /\ next_id' = next_id + 1
            /\ now' = now + 1
            /\ origin' = (next_id :> [worker |-> w, gateway |-> gateway[w],
                                      calls |-> Len(http_calls[w])]) @@ origin
            /\ wrote' = [wrote EXCEPT ![w] = @ \cup {next_id}]
            /\ result' = [result EXCEPT ![w] = Return(comment)]
            /\ response' = [response EXCEPT ![w] =
                   Response(CommentSerializer(comment), HTTP_201_CREATED)]
            /\ UNCHANGED posts
    /\ pc' = [pc EXCEPT ![w] = "done"]
    /\ UNCHANGED <<served, request, text, post, http_calls, gateway,
                   api_response, reads>>

\* The response has been sent: the worker drops the request's locals.
Close(w) ==
    /\ pc[w] = "done"
    /\ pc' = [pc EXCEPT ![w] = "idle"]
    /\ request' = [request EXCEPT ![w] = None]
    /\ text' = [text EXCEPT ![w] = None]
    /\ post' = [post EXCEPT ![w] = None]
    /\ http_calls' = [http_calls EXCEPT ![w] = <<>>]
    /\ gateway' = [gateway EXCEPT ![w] = None]
    /\ api_response' = [api_response EXCEPT ![w] = None]
    /\ result' = [result EXCEPT ![w] = None]
    /\ reads' = [reads EXCEPT ![w] = 0]
    /\ wrote' = [wrote EXCEPT ![w] = {}]
    /\ response' = [response EXCEPT ![w] = None]
    /\ UNCHANGED <<db, served>>

\* on_delete=models.CASCADE: the comments that remain when a_post is deleted.
CascadeDelete(rows, a_post) == {c \in rows : c.post_id # a_post.id}

\* A Post is deleted by another session of the store, in one transaction:
\* the post goes, and with it the comments it owns.
DeletePost ==
    /\ \E p \in posts :
         /\ posts' = posts \ {p}
         /\ comments' = CascadeDelete(comments, p)
         /\ origin' = [i \in {c.id : c \in CascadeDelete(comments, p)}
                          |-> origin[i]]
    /\ UNCHANGED <<next_id, now, served, pc, request, text, post, http_calls,
                   gateway, api_response, result, reads, wrote, response>>

(* --------------------- requests and gateway answers -------------------- *)

RemoteCommentIds == {"17858893269000001", "17858893269000002"}

\* The status codes of the gateway's answers. (The fallback of line 137 never
\* reads a status of 100: the HTTP client consumes 100 Continue itself.)
HttpStatuses == {200, 400}

ErrorMessages == {<<"Application does not have permission">>}

\* {"message"?, "code"?, "error_subcode"?}
ErrorObjects ==
    {JsonObject(m @@ c @@ s) :
        m \in Opt("message", ErrorMessages),
        c \in Opt("code", {10, 100}),
        s \in Opt("error_subcode", {0, 33})}

\* {"id"?, "error"?}, the error an object or a bare string.
JsonObjects ==
    {JsonObject(i @@ e) :
        i \in Opt("id", RemoteCommentIds),
        e \in Opt("error", ErrorObjects \cup {JsonString})}

AllOutcomes ==
    {ConnectionFailure} \cup
    {HttpResponse(status, json) :
        status \in HttpStatuses,
        json \in JsonObjects \cup {InvalidJson, JsonArray}}

\* Bodies without text, and with a text that is empty, blank, short, of the
\* maximal length or longer, padded or not.
AllBodies == Opt("text", Texts({0, min_length, max_length, max_length + 1}))

\* The subsets of the above used when several requests are in flight.
SomeBodies ==
    Opt("text", {Str(0, 0, 0), Str(0, min_length, 0), Str(0, max_length, 0)})

SomeOutcomes ==
    {ConnectionFailure}
    \cup {HttpResponse(200, JsonObject("id" :> i)) : i \in RemoteCommentIds}
    \cup {HttpResponse(200, JsonObject(
              ("id" :> i) @@ ("error" :> JsonObject(("code" :> 100) @@ ("error_subcode" :> 33))))) :
            i \in RemoteCommentIds}
    \cup {HttpResponse(400, JsonObject(
              "error" :> JsonObject(("code" :> 10) @@ ("message" :> m)))) :
            m \in ErrorMessages}

\* Members of the body that the client adds to the text: the fields of a
\* Comment it may try to set.
ClientFields ==
    {i @@ p @@ c @@ r :
        i \in Opt("id", {99}),
        p \in Opt("post", {2}),
        c \in Opt("created_at", {0}),
        r \in Opt("instagram_comment_id", {"client-chosen"})}

TwinBodies == {("text" :> Str(0, min_length, 0)) @@ f : f \in ClientFields}

TwinOutcomes ==
    {ConnectionFailure}
    \cup {HttpResponse(200, JsonObject("id" :> i)) : i \in RemoteCommentIds}

(* --------------------------- specifications ---------------------------- *)

\* NumWorkers workers serve requests concurrently.
Next ==
    \E w \in Workers :
        \/ Receive(w, PostIds, SomeBodies)
        \/ Lookup(w)
        \/ Publish(w, SomeOutcomes)
        \/ Persist(w)
        \/ Close(w)

Spec == Init /\ [][Next]_vars

\* One worker serves the requests one after the other, over every body and
\* every gateway answer.
NextSerial ==
    \/ Receive(1, PostIds, AllBodies)
    \/ Lookup(1)
    \/ Publish(1, AllOutcomes)
    \/ Persist(1)
    \/ Close(1)

SpecSerial == Init /\ [][NextSerial]_vars

\* Two workers serve requests for the existing posts whose bodies carry
\* client-set fields next to the text.
NextTwin ==
    \E w \in {1, 2} :
        \/ Receive(w, {1, 2}, TwinBodies)
        \/ Lookup(w)
        \/ Publish(w, TwinOutcomes)
        \/ Persist(w)
        \/ Close(w)

SpecTwin == Init /\ [][NextTwin]_vars

\* The workers serve requests of one valid text while posts are deleted
\* under them.
NextDelete ==
    \/ \E w \in Workers :
          \/ Receive(w, PostIds, {"text" :> Str(0, min_length, 0)})
          \/ Lookup(w)
          \/ Publish(w, TwinOutcomes)
          \/ Persist(w)
          \/ Close(w)
    \/ DeletePost

SpecDelete == Init /\ [][NextDelete]_vars

(* ------------------------ vocabulary of the claims --------------------- *)

Calls(w) == Len(http_calls[w])

Done(w) == pc[w] = "done"

ExistingPostIds == {p.id : p \in posts}

\* The rows of comments a request inserted.
RowsOf(w) == {c \in comments : c.id \in wrote[w]}

\* The gateway confirmed the comment: an answer with a 2xx status whose body
\* is a JSON object without "error".
RemoteSuccess(g) ==
    /\ ~g.raised
    /\ g.status_code \in 200..299
    /\ g.json.type = "object"
    /\ "error" \notin DOMAIN g.json.members

\* ... and that carries the id of the new comment.
RemoteSuccessWithId(g) == RemoteSuccess(g) /\ "id" \in DOMAIN g.json.members

\* The body has a text that, once trimmed, has 1 to 2200 characters.
HasValidText(data) ==
    /\ "text" \in DOMAIN data
    /\ data["text"].core >= 1
    /\ data["text"].core <= 2200

(* -------------------------------- C1 ----------------------------------- *)

\* C1: under every interleaving of the workers, every row of comments was
\* inserted by a request after its single remote call was answered with
\* success, and carries the id of that answer (no draft or pending row); a
\* request whose remote call failed, was rejected or was never made has
\* inserted nothing.
C1_CommentOnlyAfterRemoteSuccess ==
    /\ \A c \in comments :
        /\ c.id \in DOMAIN origin
        /\ origin[c.id].calls = 1
        /\ RemoteSuccessWithId(origin[c.id].gateway)
        /\ c.instagram_comment_id = origin[c.id].gateway.json.members["id"]
    /\ \A w \in Workers :
        /\ wrote[w] # {} => Done(w) /\ response[w].status = 201
        /\ (Calls(w) = 0 \/ ~RemoteSuccess(gateway[w])) => wrote[w] = {}

\* While one request has its comment stored, another one, refused by the
\* gateway, has answered without a row.
C1_Witness ==
    \E w1, w2 \in Workers :
        /\ wrote[w1] # {} /\ RowsOf(w1) # {}
        /\ Done(w2) /\ Calls(w2) = 1 /\ ~RemoteSuccess(gateway[w2])
        /\ response[w2].status \in {404, 502} /\ wrote[w2] = {}

(* ---------------------- what the gateway answered ---------------------- *)

SentText(w) == request[w].data["text"]

\* The body parsed as a JSON object with an "error" member.
HasErrorKey(json) == json.type = "object" /\ "error" \in DOMAIN json.members

\* ... whose value is an object.
HasErrorObject(g) ==
    /\ ~g.raised
    /\ HasErrorKey(g.json)
    /\ g.json.members["error"].type = "object"

\* ... with code 100 and error_subcode 33.
IsCode100Subcode33(g) ==
    /\ HasErrorObject(g)
    /\ LET e == g.json.members["error"].members IN
       /\ "code" \in DOMAIN e /\ e["code"] = 100
       /\ "error_subcode" \in DOMAIN e /\ e["error_subcode"] = 33

(* -------------------------------- C2 ----------------------------------- *)

\* The request of a worker that has answered: an existing post, a text of 1
\* to 2200 characters, and a remote call answered with success and an id.
C2_Case(w) ==
    /\ Done(w)
    /\ request[w].post_id \in ExistingPostIds
    /\ "text" \in DOMAIN request[w].data
    /\ StrLen(SentText(w)) >= 1 /\ StrLen(SentText(w)) <= 2200
    /\ Calls(w) = 1
    /\ RemoteSuccessWithId(gateway[w])

\* C2 as stated: in that case exactly one row is created, for the given post,
\* with the text as sent and the id the gateway returned, and the answer is
\* 201.
C2_Original ==
    \A w \in Workers :
        C2_Case(w) =>
            /\ Cardinality(RowsOf(w)) = 1
            /\ response[w].status = 201
            /\ \A c \in RowsOf(w) :
                /\ c.post_id = request[w].post_id
                /\ c.text = SentText(w)
                /\ c.instagram_comment_id = gateway[w].json.members["id"]

\* C2 amended: ... with the text as sent, stripped of its leading and
\* trailing whitespace, ...; the 201 carries that row.
C2_CommentCreatedOnSuccess ==
    \A w \in Workers :
        C2_Case(w) =>
            /\ Cardinality(RowsOf(w)) = 1
            /\ response[w].status = 201
            /\ \A c \in RowsOf(w) :
                /\ c.post_id = request[w].post_id
                /\ c.text = Strip(SentText(w))
                /\ c.instagram_comment_id = gateway[w].json.members["id"]
                /\ response[w].data = CommentSerializer(c)

\* A padded text has been published and stored, next to an earlier comment.
C2_Witness ==
    \E w \in Workers :
        /\ C2_Case(w)
        /\ SentText(w).lead > 0
        /\ response[w].status = 201
        /\ Cardinality(comments) = 2

(* -------------------------------- C3 ----------------------------------- *)

\* C3 as stated: a request for a post the store does not hold makes no remote
\* call, creates no row and is answered 404, whatever its body.
C3_Original ==
    \A w \in Workers :
        (pc[w] # "idle" /\ request[w].post_id \notin ExistingPostIds) =>
            /\ Calls(w) = 0
            /\ wrote[w] = {}
            /\ Done(w) => response[w].status = 404

\* C3 amended: ... and is answered 404 when its body is valid; a body that is
\* not is answered 400 first, also without call or row.
C3_MissingPostNoCallNoRow ==
    \A w \in Workers :
        (pc[w] # "idle" /\ request[w].post_id \notin ExistingPostIds) =>
            /\ Calls(w) = 0
            /\ wrote[w] = {}
            /\ Done(w) =>
                 response[w].status =
                     IF HasValidText(request[w].data) THEN 404 ELSE 400

\* The lookup of a valid request has missed and the view has answered 404.
C3_Witness ==
    \E w \in Workers :
        /\ Done(w)
        /\ request[w].post_id \notin ExistingPostIds
        /\ HasValidText(request[w].data)
        /\ reads[w] = 1
        /\ result[w].exc = "PostNotFoundError"
        /\ response[w].status = 404

(* -------------------------------- C4 ----------------------------------- *)

\* C4: an answer whose error object has code 100 and error_subcode 33 makes
\* the adapter raise MediaNotFoundError with status code 404, whatever the
\* HTTP status of the answer; the view answers 404 with a detail that is not
\* empty, and no row is created.
C4_MediaNotFoundIs404 ==
    \A w \in Workers :
        (Calls(w) = 1 /\ IsCode100Subcode33(gateway[w])) =>
            /\ api_response[w].kind = "raise"
            /\ api_response[w].exc = "MediaNotFoundError"
            /\ api_response[w].status_code = 404
            /\ Done(w)
            /\ response[w].status = 404
            /\ Len(response[w].data.detail) > 0
            /\ wrote[w] = {}

\* The gateway said so with HTTP 200.
C4_Witness ==
    \E w \in Workers :
        /\ Done(w) /\ Calls(w) = 1
        /\ IsCode100Subcode33(gateway[w])
        /\ gateway[w].status_code = 200
        /\ response[w].status = 404

(* -------------------------------- C5 ----------------------------------- *)

\* An answer that is an error, but not the one of C4: an error object with
\* another code, or with code 100 and no or another subcode, or without code,
\* or no "error" at all under a status that is not 2xx.
C5_Case(w) ==
    /\ Calls(w) = 1
    /\ ~gateway[w].raised
    /\ gateway[w].json.type = "object"
    /\ \/ HasErrorObject(gateway[w]) /\ ~IsCode100Subcode33(gateway[w])
       \/ /\ ~HasErrorKey(gateway[w].json)
          /\ gateway[w].status_code \notin 200..299

\* C5: such an answer is reported 502 with a detail that starts with
\* "Instagram API error: ", and no row is created.
C5_OtherErrorsAre502 ==
    \A w \in Workers :
        C5_Case(w) =>
            /\ Done(w)
            /\ response[w].status = 502
            /\ Head(response[w].data.detail) = "Instagram API error: "
            /\ wrote[w] = {}

\* Code 100 without subcode, under HTTP 200.
C5_Witness ==
    \E w \in Workers :
        /\ C5_Case(w)
        /\ gateway[w].status_code = 200
        /\ LET e == gateway[w].json.members["error"].members IN
           /\ "code" \in DOMAIN e /\ e["code"] = 100
           /\ "error_subcode" \notin DOMAIN e
        /\ response[w].status = 502

(* -------------------------------- C6 ----------------------------------- *)

\* C6 as stated: a request whose text is missing, empty or longer than 2200
\* characters is answered 400 at once: the store is not read, no remote call
\* is made, no row is created.
C6_Original ==
    \A w \in Workers :
        (/\ pc[w] # "idle"
         /\ \/ "text" \notin DOMAIN request[w].data
            \/ StrLen(SentText(w)) = 0
            \/ StrLen(SentText(w)) > 2200) =>
            /\ Done(w)
            /\ response[w].status = 400
            /\ reads[w] = 0 /\ Calls(w) = 0 /\ wrote[w] = {}

\* C6 amended: the lengths are those of the text stripped of its leading and
\* trailing whitespace.
C6_InvalidTextRejected ==
    \A w \in Workers :
        (/\ pc[w] # "idle"
         /\ \/ "text" \notin DOMAIN request[w].data
            \/ StrLen(Strip(SentText(w))) = 0
            \/ StrLen(Strip(SentText(w))) > 2200) =>
            /\ Done(w)
            /\ response[w].status = 400
            /\ "text" \in DOMAIN response[w].data
            /\ reads[w] = 0 /\ Calls(w) = 0 /\ wrote[w] = {}

\* A text that is too long even once trimmed has been refused.
C6_Witness ==
    \E w \in Workers :
        /\ Done(w)
        /\ "text" \in DOMAIN request[w].data
        /\ SentText(w).core > 2200
        /\ SentText(w).trail > 0
        /\ response[w].status = 400

(* -------------------------------- C7 ----------------------------------- *)

\* C7: the adapter returns only for a body that parsed, has no "error" key
\* and came with a 2xx status; an answer with an "error" key under HTTP 200,
\* or with another status, is raised, and no row is created.
C7_SuccessNeedsAllThree ==
    \A w \in Workers :
        Calls(w) = 1 =>
            /\ api_response[w].kind = "return" =>
                 /\ ~gateway[w].raised
                 /\ gateway[w].json.type # "invalid"
                 /\ ~HasErrorKey(gateway[w].json)
                 /\ gateway[w].status_code \in 200..299
            /\ (/\ ~gateway[w].raised
                /\ \/ gateway[w].status_code = 200 /\ HasErrorKey(gateway[w].json)
                   \/ gateway[w].status_code \notin 200..299) =>
                 /\ api_response[w].kind = "raise"
                 /\ Done(w)
                 /\ wrote[w] = {}

\* HTTP 200, a body with an id and an error: raised, nothing stored.
C7_Witness ==
    \E w \in Workers :
        /\ Done(w) /\ Calls(w) = 1
        /\ ~gateway[w].raised
        /\ gateway[w].status_code = 200
        /\ HasErrorKey(gateway[w].json)
        /\ "id" \in DOMAIN gateway[w].json.members
        /\ api_response[w].kind = "raise"
        /\ comments = {}

(* -------------------------------- C8 ----------------------------------- *)

\* C8 as stated: whatever the gateway answers, the service ends with a stored
\* comment, PostNotFoundError, MediaNotFoundError or InstagramAPIError, and
\* the view answers 201, 400, 404 or 502.
C8_Original ==
    \A w \in Workers :
        Done(w) =>
            /\ response[w].status \in {201, 400, 404, 502}
            /\ response[w].status # 400 =>
                 \/ result[w].kind = "return"
                 \/ result[w].exc \in {"PostNotFoundError", "MediaNotFoundError",
                                       "InstagramAPIError"}

(* -------------------------------- C9 ----------------------------------- *)

\* C9: a connection failure, and an answer whose body is not JSON, are raised
\* as InstagramAPIError itself with status code 0; the view answers 502 and
\* no row is created.
C9_TransportErrorsAreGeneric ==
    \A w \in Workers :
        (Calls(w) = 1 /\ (gateway[w].raised \/ gateway[w].json.type = "invalid")) =>
            /\ api_response[w].kind = "raise"
            /\ api_response[w].exc = "InstagramAPIError"
            /\ api_response[w].status_code = 0
            /\ Done(w)
            /\ response[w].status = 502
            /\ wrote[w] = {}

\* A body that is not JSON, under HTTP 400.
C9_Witness ==
    \E w \in Workers :
        /\ Done(w) /\ Calls(w) = 1
        /\ ~gateway[w].raised
        /\ gateway[w].json.type = "invalid"
        /\ gateway[w].status_code = 400
        /\ response[w].status = 502

(* -------------------------------- C10 ---------------------------------- *)

\* C10: a request never makes more than one remote call; once answered it
\* has made exactly one if its text is valid and its post exists, and none
\* otherwise, whatever the outcome of the call (no retry).
C10_OneRemoteCallPerRequest ==
    \A w \in Workers :
        /\ Calls(w) <= 1
        /\ Done(w) =>
             Calls(w) = IF /\ HasValidText(request[w].data)
                           /\ request[w].post_id \in ExistingPostIds
                        THEN 1 ELSE 0

\* A request whose only call failed has answered 502, next to one that made
\* no call at all.
C10_Witness ==
    \E w1, w2 \in Workers :
        /\ Done(w1) /\ Calls(w1) = 1 /\ gateway[w1].raised
        /\ response[w1].status = 502
        /\ Done(w2) /\ Calls(w2) = 0

(* -------------------------------- C11 ---------------------------------- *)

\* The row stored for the successful call that was given comment id i.
RowOfCall(i) == {c \in comments : c.id = i}

\* C11 amended: creation is not idempotent: every successful call, also one with the
\* post_id and the text of an earlier successful call, has a row of its own,
\* which carries the remote id of its own gateway answer (so two such rows
\* have distinct remote ids whenever the gateway gave distinct ids); no call
\* is deduplicated against another.
C11_NotIdempotent ==
    /\ Cardinality(comments) = Cardinality(DOMAIN origin)
    /\ \A i \in DOMAIN origin :
        /\ Cardinality(RowOfCall(i)) = 1
        /\ \A c \in RowOfCall(i) :
            c.instagram_comment_id = origin[i].gateway.json.members["id"]
        /\ \A j \in DOMAIN origin \ {i} :
            \A c \in RowOfCall(i), d \in RowOfCall(j) :
                /\ c # d
                /\ origin[i].gateway.json.members["id"]
                     # origin[j].gateway.json.members["id"]
                   => c.instagram_comment_id # d.instagram_comment_id

\* C11 as stated: two rows for the same post and the same text always have
\* distinct remote ids.
C11_Original ==
    \A c, d \in comments :
        (c.id # d.id /\ c.post_id = d.post_id /\ c.text = d.text) =>
            c.instagram_comment_id # d.instagram_comment_id

\* Two rows for the same post and the same text, with distinct remote ids.
C11_Witness ==
    \E c, d \in comments :
        /\ c.id # d.id
        /\ c.post_id = d.post_id
        /\ c.text = d.text
        /\ c.instagram_comment_id # d.instagram_comment_id

(* -------------------------------- C12 ---------------------------------- *)

\* Every request whose remote call succeeded and that has answered has one
\* row, with its post, its text and the remote id of its answer; no two
\* requests share a row; posts is as it was.
C12_EachRequestItsRow ==
    /\ posts = InitialPosts
    /\ \A w \in Workers :
        (Done(w) /\ Calls(w) = 1 /\ RemoteSuccessWithId(gateway[w])) =>
            /\ Cardinality(RowsOf(w)) = 1
            /\ \A c \in RowsOf(w) :
                /\ c.post_id = request[w].post_id
                /\ c.text = text[w]
                /\ c.instagram_comment_id = gateway[w].json.members["id"]
    /\ \A w1, w2 \in Workers : w1 # w2 => wrote[w1] \cap wrote[w2] = {}

\* C12: with the workers' lookups, remote calls and inserts interleaved in
\* every way, each request whose remote call succeeded ends with its own row,
\* no step of any request removes or changes a row that is stored, and the
\* posts are unchanged.
C12_ConcurrentRequestsIndependent ==
    /\ []C12_EachRequestItsRow
    /\ [][\A c \in comments : c \in comments']_vars

\* Two requests for the same post, with different texts and different remote
\* ids, have both answered 201.
C12_Witness ==
    \E w1, w2 \in Workers :
        /\ w1 # w2
        /\ Done(w1) /\ response[w1].status = 201
        /\ Done(w2) /\ response[w2].status = 201
        /\ request[w1].post_id = request[w2].post_id
        /\ text[w1] # text[w2]
        /\ gateway[w1] # gateway[w2]
        /\ Cardinality(RowsOf(w1) \cup RowsOf(w2)) = 2

(* -------------------------------- C13 ---------------------------------- *)

\* Two requests that have answered and differ at most in the members their
\* bodies add to the text, and whose remote calls were answered alike.
C13_Case(w1, w2) ==
    /\ Done(w1) /\ Done(w2)
    /\ request[w1].post_id = request[w2].post_id
    /\ SentText(w1) = SentText(w2)
    /\ Calls(w1) = 1 /\ Calls(w2) = 1
    /\ gateway[w1] = gateway[w2]

\* C13: such requests get the same status; when it is 201, the row and the
\* answer of each carry the id of the gateway answer and the post of the URL,
\* and a created_at that is the store's, whatever id, post, created_at or
\* instagram_comment_id the bodies name.
C13_ClientFieldsIgnored ==
    \A w1, w2 \in Workers :
        C13_Case(w1, w2) =>
            /\ response[w1].status = response[w2].status
            /\ response[w1].status = 201 =>
                 /\ Cardinality(RowsOf(w1)) = 1
                 /\ \A c \in RowsOf(w1) :
                     /\ c.instagram_comment_id = gateway[w1].json.members["id"]
                     /\ c.post_id = request[w1].post_id
                     /\ "created_at" \in DOMAIN request[w1].data =>
                          c.created_at # request[w1].data["created_at"]
                     /\ response[w1].data = CommentSerializer(c)
                 /\ response[w1].data.instagram_comment_id
                      = response[w2].data.instagram_comment_id
                 /\ response[w1].data.post = response[w2].data.post

\* A body with the text alone and a body that also names an id, another
\* post, a created_at and an instagram_comment_id have both been answered 201.
C13_Witness ==
    \E w1, w2 \in Workers :
        /\ C13_Case(w1, w2)
        /\ DOMAIN request[w1].data = {"text"}
        /\ DOMAIN request[w2].data =
             {"text", "id", "post", "created_at", "instagram_comment_id"}
        /\ request[w2].data["post"] # request[w2].post_id
        /\ response[w1].status = 201
        /\ response[w2].status = 201

(* -------------------------------- C14 ---------------------------------- *)

\* C14: every Comment row references a Post the store holds, and a request
\* whose Post was deleted after its remote call leaves no row: its insert
\* fails on the foreign key.
C14_CommentsReferenceExistingPosts ==
    /\ \A c \in comments : c.post_id \in ExistingPostIds
    /\ \A w \in Workers :
         (Done(w) /\ Calls(w) = 1 /\ RemoteSuccessWithId(gateway[w])
            /\ post[w].id \notin ExistingPostIds)
         => /\ RowsOf(w) = {}
            /\ result[w] = BuiltinError("IntegrityError") => wrote[w] = {}

\* A request looked its Post up and published remotely, the Post was deleted,
\* and the insert that followed failed and left no row.
C14_Witness ==
    \E w \in Workers :
        /\ Done(w) /\ Calls(w) = 1 /\ RemoteSuccessWithId(gateway[w])
        /\ post[w].id \notin ExistingPostIds
        /\ result[w] = BuiltinError("IntegrityError")
        /\ wrote[w] = {}
        /\ response[w].status = HTTP_500_INTERNAL_SERVER_ERROR

(* -------------------------------- C15 ---------------------------------- *)

\* Where a request stands: before its remote call it has written nothing;
\* its call follows one lookup, goes to the comments edge of the media of the
\* Post of its URL and carries the validated text; its row follows a call
\* that returned.
C15_StepsInOrder ==
    \A w \in Workers :
        /\ pc[w] = "lookup" => reads[w] = 0 /\ Calls(w) = 0 /\ wrote[w] = {}
        /\ pc[w] = "publish" => reads[w] = 1 /\ Calls(w) = 0 /\ wrote[w] = {}
        /\ Calls(w) >= 1 =>
             /\ reads[w] = 1
             /\ post[w] \in posts
             /\ post[w].id = request[w].post_id
             /\ http_calls[w][1].url =
                  <<INSTAGRAM_API_BASE_URL, "/", post[w].instagram_id,
                    "/comments">>
             /\ http_calls[w][1].json.message = Strip(SentText(w))
        /\ pc[w] = "persist" => Calls(w) = 1 /\ wrote[w] = {}
        /\ wrote[w] # {} =>
             /\ Calls(w) = 1
             /\ api_response[w].kind = "return"
             /\ Done(w)

\* C15: the steps of a request keep that order: the step that makes the
\* remote call writes nothing to the store and comes after the lookup, and
\* the step that writes the row comes after the call has returned.
C15_FixedOrder ==
    /\ []C15_StepsInOrder
    /\ [][\A w \in Workers :
            /\ Len(http_calls'[w]) > Calls(w) =>
                 /\ reads[w] = 1 /\ wrote[w] = {}
                 /\ comments' = comments
            /\ wrote'[w] # wrote[w] /\ wrote'[w] # {} =>
                 /\ Calls(w) = 1 /\ api_response[w].kind = "return"
                 /\ http_calls'[w] = http_calls[w]]_vars

\* A request with a padded text has looked the second post up, called that
\* post's comments edge with the trimmed text, and then stored its row.
C15_Witness ==
    \E w \in Workers :
        /\ Done(w) /\ wrote[w] # {} /\ reads[w] = 1 /\ Calls(w) = 1
        /\ request[w].post_id = 2
        /\ SentText(w).lead > 0
        /\ http_calls[w][1].url =
             <<INSTAGRAM_API_BASE_URL, "/", "17896129349000002", "/comments">>
        /\ http_calls[w][1].json.message = Strip(SentText(w))
        /\ http_calls[w][1].json.message # SentText(w)

====
